---- MODULE Spec2Model ----
(***************************************************************************)
(* Model of two components of the adversarial robustness toolbox:          *)
(*                                                                         *)
(*   - AdversarialPatchTensorFlowV2                                        *)
(*       (art/attacks/evasion/adversarial_patch/                           *)
(*        adversarial_patch_tensorflow.py): construction, _train_step,     *)
(*       reset_patch and the generate loop; specifications SpecPatch,      *)
(*       SpecGenerate and SpecGenerateFair.                                *)
(*   - AdversarialTrainerCertified and DefaultLinearScheduler              *)
(*       (art/defences/trainer/certified_trainer_pytorch.py): the fit      *)
(*       loop; specification Spec.                                         *)
(*                                                                         *)
(* Python's None is modelled by the empty set and a present optional value *)
(* v by {v}.  Tuples and lists are sequences, so Python's x[k] is x[k+1].  *)
(***************************************************************************)
EXTENDS Integers, Sequences, FiniteSets, TLC

VARIABLES
    a_pc,        \* AdversarialPatchTensorFlowV2: "new", "ready", "generate", "returned", "raised"
    a_err,       \* the exception raised by the attack, or "none"
    a_args,      \* the arguments of the constructor call, None before it
    attack,      \* the attributes of the attack instance
    gen,         \* the locals of generate
    a_step,      \* the locals of the last call of _train_step
    t_pc,        \* AdversarialTrainerCertified.fit: position in fit
    t_err,       \* the exception raised by fit, or "none"
    trainer,     \* the attributes of the trainer instance
    classifier,  \* the wrapped classifier: optimizer, model mode, pass counters
    args,        \* the arguments of the fit call
    fit          \* the locals of fit

attackVars == <<a_pc, a_err, a_args, attack, gen, a_step>>

trainerVars == <<t_pc, t_err, trainer, classifier, args, fit>>

vars ==
    <<a_pc, a_err, a_args, attack, gen, a_step,
      t_pc, t_err, trainer, classifier, args, fit>>

None == {}

Some(v) == {v}

Val(o) == CHOOSE v \in o : TRUE

(***************************************************************************)
(* Bounds of the adversarial patch model.                                  *)
(***************************************************************************)
MaxSide == 2

MaxChannels == 3

MaxIter == 3

MaxN == 4

MaxBatch == 3

\* Patch values are numbers on an integer grid; the clip values are even so
\* that (clip_values[1] - clip_values[0]) / 2.0 is on the grid.
ClipValueSet == {<<0, 2>>, <<-2, 4>>}

InitialPatchValues == {-3, 1, 5}

GradValues == {-1, 1}

LearningRates == {1, 2}

PostprocessingDefences == {None, Some(<< >>), Some(<<"defence">>)}

Shapes == (1..MaxSide) \X (1..MaxSide) \X (1..MaxChannels)

ImageShapes == {2} \X {2} \X (1..MaxChannels)

\* math.prod of a shape
Prod(shape) == shape[1] * shape[2] * shape[3]

\* np.ones(shape) * value, flattened
Ones(shape, value) == [i \in 1..Prod(shape) |-> 1 * value]

\* tf.clip_by_value on one element: min(max(x, lo), hi)
ClipByValue(x, lo, hi) ==
    LET m == IF x > lo THEN x ELSE lo
    IN  IF m < hi THEN m ELSE hi

\* the constraint of the patch variable (the lambda of tf.Variable)
Constraint(p, clip_values) ==
    [i \in DOMAIN p |-> ClipByValue(p[i], clip_values[1], clip_values[2])]

ShapeAssertionsImageOnly(image_shape, patch_shape) ==
    /\ image_shape[3] \in {1, 3}
    /\ patch_shape[1] = patch_shape[2]

\* the three shape assertions of __init__ (lines 111-121)
ShapeAssertions(image_shape, patch_shape) ==
    /\ image_shape[3] \in {1, 3}
    /\ patch_shape[3] \in {1, 3}
    /\ patch_shape[1] = patch_shape[2]

\* the condition of the postprocessing assertion of __init__ (lines 122-125)
PostprocessingAssertion(postprocessing_defences) ==
    \/ postprocessing_defences # None
    \/ postprocessing_defences # Some(<< >>)

NoAttack ==
    [image_shape |-> <<0, 0, 0>>, patch_shape |-> <<0, 0, 0>>,
     clip_values |-> <<0, 0>>, postprocessing_defences |-> None,
     learning_rate |-> 0, max_iter |-> 0, batch_size |-> 0,
     patch |-> << >>, targeted |-> FALSE]

NoGenerate == [n |-> 0, ds |-> 0, i_iter |-> 0, exit |-> "none"]

NoTrainStep == [target |-> None]

\* AdversarialPatchTensorFlowV2.__init__
Construct(estimator, learning_rate, max_iter, batch_size, patch_shape) ==
    /\ a_pc = "new"
    /\ IF /\ ShapeAssertions(estimator.input_shape, patch_shape)
          /\ PostprocessingAssertion(estimator.postprocessing_defences)
       THEN LET mean_value ==
                    (estimator.clip_values[2] - estimator.clip_values[1]) \div 2
                    + estimator.clip_values[1]
            IN  /\ attack' = [image_shape |-> estimator.input_shape,
                              patch_shape |-> patch_shape,
                              clip_values |-> estimator.clip_values,
                              postprocessing_defences |->
                                  estimator.postprocessing_defences,
                              learning_rate |-> learning_rate,
                              max_iter |-> max_iter,
                              batch_size |-> batch_size,
                              patch |-> Ones(patch_shape, mean_value),
                              targeted |-> FALSE]
                /\ a_pc' = "ready"
                /\ a_err' = "none"
       ELSE /\ a_pc' = "raised"
            /\ a_err' = "AssertionError"
            /\ attack' = attack
    /\ a_args' = Some([estimator |-> estimator, learning_rate |-> learning_rate,
                        max_iter |-> max_iter, batch_size |-> batch_size,
                        patch_shape |-> patch_shape])
    /\ gen' = gen
    /\ a_step' = a_step
    /\ UNCHANGED trainerVars

\* the gradients the tape can return: one value for the first element of the
\* patch and one for all the others
Gradients(p) ==
    {[i \in DOMAIN p |-> IF i = 1 THEN a ELSE b] : a, b \in GradValues}

\* the gradient handed to the optimizer (lines 159-160)
AppliedGradientUnchanged(g, targeted) == g

AppliedGradient(g, targeted) ==
    IF ~targeted THEN [i \in DOMAIN g |-> -g[i]] ELSE g

\* SGD.apply_gradients with momentum 0: var <- constraint(var - lr * grad)
ApplyGradients(a, grad) ==
    Constraint([i \in DOMAIN a.patch |-> a.patch[i] - a.learning_rate * grad[i]],
               a.clip_values)

\* the attack after _train_step(images, target); g is the gradient of the loss
TrainStepOf(a, target, g) ==
    LET targeted == target # None
    IN  [a EXCEPT !.targeted = targeted,
                  !.patch = ApplyGradients([a EXCEPT !.targeted = targeted],
                                           AppliedGradient(g, targeted))]

\* the locals of _train_step(images, target): the target the loss is
\* computed against (lines 147-155)
TrainStepLocals(target) ==
    [target |-> IF target = None THEN Some("estimator.predict(images)") ELSE target]

\* a direct call of _train_step
TrainStep(target, g) ==
    /\ a_pc = "ready"
    /\ attack' = TrainStepOf(attack, target, g)
    /\ a_step' = TrainStepLocals(target)
    /\ UNCHANGED <<a_pc, a_err, a_args, gen>>
    /\ UNCHANGED trainerVars

\* reset_patch(initial_patch_value)
ResetPatch(initial_patch_value) ==
    /\ a_pc = "ready"
    /\ LET initial_value == Ones(attack.patch_shape, initial_patch_value)
       IN  attack' = [attack EXCEPT !.patch =
                         [i \in DOMAIN initial_value |-> 1 * initial_value[i]]]
    /\ UNCHANGED <<a_pc, a_err, a_args, gen, a_step>>
    /\ UNCHANGED trainerVars

CeilDiv(a, b) == (a + b - 1) \div b

RECURSIVE GCD(_, _)
GCD(a, b) == IF b = 0 THEN a ELSE GCD(b, a % b)

RECURSIVE IsPowerOfTwo(_)
IsPowerOfTwo(x) == x = 1 \/ (x % 2 = 0 /\ IsPowerOfTwo(x \div 2))

\* whether the float x.shape[0] / self.batch_size is the exact quotient
ExactQuotient(n, batch_size) == IsPowerOfTwo(batch_size \div GCD(n, batch_size))

RepetitionsFloor(max_iter, n, batch_size) == {(max_iter * batch_size) \div n}

\* math.ceil(self.max_iter / (x.shape[0] / self.batch_size)): the values the
\* float computation can give.  It is the ceiling of max_iter * batch_size / n,
\* or one more when that quotient is an integer and the rounding of the inner
\* quotient can push the outer one above it.
Repetitions(max_iter, n, batch_size) ==
    LET c == CeilDiv(max_iter * batch_size, n)
    IN  IF /\ max_iter > 0
           /\ (max_iter * batch_size) % n = 0
           /\ ~ExactQuotient(n, batch_size)
        THEN {c, c + 1} ELSE {c}

\* number of batches of Dataset.batch(batch_size) over n samples
BatchesPerPass(n, batch_size) == CeilDiv(n, batch_size)

\* generate: the dataset is built, with or without shuffling, and the loop is
\* entered
Generate(n, shuffle) ==
    /\ a_pc \in {"ready", "returned"}
    /\ \E repetitions \in Repetitions(attack.max_iter, n, attack.batch_size) :
          gen' = [n |-> n,
                  ds |-> IF shuffle
                         THEN BatchesPerPass(n, attack.batch_size) * repetitions
                         ELSE BatchesPerPass(n, attack.batch_size) * repetitions,
                  i_iter |-> 0, exit |-> "none"]
    /\ a_pc' = "generate"
    /\ UNCHANGED <<a_err, a_args, attack, a_step>>
    /\ UNCHANGED trainerVars

\* one iteration of "for images, target in ds" that reaches _train_step
GenerateStep(g) ==
    /\ a_pc = "generate"
    /\ gen.ds > 0
    /\ gen.i_iter < attack.max_iter
    /\ attack' = TrainStepOf(attack, Some("y"), g)
    /\ a_step' = TrainStepLocals(Some("y"))
    /\ gen' = [gen EXCEPT !.ds = @ - 1, !.i_iter = @ + 1]
    /\ UNCHANGED <<a_pc, a_err, a_args>>
    /\ UNCHANGED trainerVars

\* the loop ends, by break or because the dataset is exhausted
GenerateReturn ==
    /\ a_pc = "generate"
    /\ \/ gen.ds = 0
       \/ gen.i_iter >= attack.max_iter
    /\ gen' = [gen EXCEPT !.exit = IF gen.ds = 0 THEN "exhausted" ELSE "break"]
    /\ a_pc' = "returned"
    /\ UNCHANGED <<a_err, a_args, attack, a_step>>
    /\ UNCHANGED trainerVars

Classifiers ==
    [input_shape : ImageShapes, clip_values : ClipValueSet,
     postprocessing_defences : PostprocessingDefences]

(***************************************************************************)
(* Floating-point numbers.  The certification bound is a Python float.     *)
(* Floats are modelled as IEEE 754 binary floats with a significand of     *)
(* FloatPrecision bits and gradual underflow, rounded to nearest, ties to  *)
(* even; a value is the integer number of units of the smallest            *)
(* subnormal.  Python's float has 53 bits.                                 *)
(***************************************************************************)
FloatPrecision == 4

\* Bounds of the trainer model: epochs of a fit call, samples of the
\* training set, batch sizes.
MaxEpochs == 3

MaxSamples == 3

MaxBatchSize == 3

RECURSIVE Pow2(_)
Pow2(k) == IF k = 0 THEN 1 ELSE 2 * Pow2(k - 1)

Abs(x) == IF x < 0 THEN -x ELSE x

Min(a, b) == IF a < b THEN a ELSE b

\* the spacing of the floats around num/den >= 0: the least power of two s
\* with num/den < 2^FloatPrecision * s
RECURSIVE Spacing(_, _, _)
Spacing(num, den, s) ==
    IF num < Pow2(FloatPrecision) * s * den THEN s ELSE Spacing(num, den, 2 * s)

\* num/den >= 0 rounded to the nearest float, ties to the even significand
RoundHalfEven(num, den) ==
    LET s == Spacing(num, den, 1)
        k == num \div (den * s)
        twice_rest == 2 * (num - k * den * s)
        m == IF twice_rest > den * s THEN k + 1
             ELSE IF twice_rest < den * s THEN k
             ELSE IF k % 2 = 0 THEN k ELSE k + 1
    IN  m * s

FRound(num, den) ==
    IF num < 0 THEN -RoundHalfEven(-num, den) ELSE RoundHalfEven(num, den)

\* float / int
FDiv(a, n) == FRound(a, n)

\* float + float
FAdd(a, b) == FRound(a + b, 1)

\* the configured bounds: floats in the normal range whose quotient by any
\* number of epochs is in the normal range too, zero, and a negative float
\* (the constructor takes any float as bound)
BoundUnit == Pow2(3)

BoundValues ==
    {m * BoundUnit : m \in {Pow2(FloatPrecision - 1), Pow2(FloatPrecision - 1) + 5,
                            Pow2(FloatPrecision) - 1}}
    \cup {0, -(Pow2(FloatPrecision - 1) + 5) * BoundUnit}

(***************************************************************************)
(* DefaultLinearScheduler                                                  *)
(***************************************************************************)
DefaultLinearScheduler(step_per_epoch, initial_bound) ==
    [step_per_epoch |-> step_per_epoch, bound |-> initial_bound]

SchedulerStepNoAccumulate(s) == [s EXCEPT !.bound = s.step_per_epoch]

SchedulerStepShrink(s) == [s EXCEPT !.bound = FAdd(s.bound, -s.step_per_epoch)]

\* DefaultLinearScheduler.step: the scheduler after self.bound += self.step_per_epoch
SchedulerStep(s) == [s EXCEPT !.bound = FAdd(s.bound, s.step_per_epoch)]

(***************************************************************************)
(* AdversarialTrainerCertified.fit                                         *)
(***************************************************************************)
\* ind, x_cert: the index array and the copy of the training set, as sequences
\* of sample numbers 0..N-1; batches: the PGD batches of the current epoch;
\* cert_samples: the samples whose certified loss was summed in the current
\* batch step; last: the labels, predictions and certification of the sample
\* processed last
NoFit ==
    [batch_size |-> 0, epochs |-> 0, num_batch |-> 0,
     bound |-> None, certification_schedule_function |-> None, eps_bound |-> None,
     training_before |-> FALSE,
     epoch |-> 0, m |-> 0, i |-> 0, summed |-> 0, divided_by |-> 0,
     conversions |-> 0, lr_steps |-> 0,
     ind |-> << >>, x_cert |-> << >>, batches |-> << >>, cert_samples |-> << >>,
     samples_certified |-> 0, last |-> None]

NoPasses ==
    [concrete |-> 0, abstract |-> 0, pgd |-> 0, zero_grad |-> 0, backward |-> 0,
     optimizer_step |-> 0]

\* the forward modes in which the forward passes of each kind were executed
NoModes ==
    [concrete_pred |-> {}, zonotope |-> {}, pgd_generate |-> {}, pgd_loss |-> {}]

SetForwardModeKeep(c, mode) == c

\* set_forward_mode
SetForwardMode(c, mode) == [c EXCEPT !.forward_mode = mode]

\* a forward pass of the model, of the given kind: it is executed in the
\* forward mode the model is in
Forward(c, kind) ==
    [c EXCEPT !.modes[kind] = @ \cup {c.forward_mode}, !.calls = Append(@, kind)]

\* self._classifier._optimizer.zero_grad()
ZeroGrad(c) ==
    [c EXCEPT !.passes.zero_grad = @ + 1, !.calls = Append(@, "zero_grad")]

\* loss.backward()
Backward(c) ==
    [c EXCEPT !.passes.backward = @ + 1, !.calls = Append(@, "backward")]

OptimizerStepTwice(c) ==
    [c EXCEPT !.passes.optimizer_step = @ + 2,
              !.calls = @ \o <<"optimizer_step", "optimizer_step">>]

\* self._classifier._optimizer.step()
OptimizerStep(c) ==
    [c EXCEPT !.passes.optimizer_step = @ + 1, !.calls = Append(@, "optimizer_step")]

Range(s) == {s[k] : k \in DOMAIN s}

\* np.arange(n)
Arange(n) == [k \in 1..n |-> k - 1]

\* the orders random.shuffle and sklearn.utils.shuffle can give to s
Shuffles(s) == {p \in [DOMAIN s -> Range(s)] : Range(p) = Range(s)}

\* Python's s[lo:hi] for 0 <= lo <= hi
Slice(s, lo, hi) ==
    IF lo >= Len(s) THEN << >> ELSE SubSeq(s, lo + 1, Min(hi, Len(s)))

PgdBatchStride(ind, m, batch_size) == Slice(ind, m, m + batch_size)

\* ind[m * self.pgd_params["batch_size"] : (m + 1) * self.pgd_params["batch_size"]]
PgdBatch(ind, m, batch_size) == Slice(ind, m * batch_size, (m + 1) * batch_size)

CertSampleFirst(x_cert, i) == x_cert[1]

\* the sample of iteration i of enumerate(zip(x_cert, y_cert))
CertSample(x_cert, i) == x_cert[i + 1]

\* the classes of a classifier with nb_classes classes
Classes(nb_classes) == 0..(nb_classes - 1)

\* The outputs of the model on one sample: the class of the concrete
\* prediction, and the zonotope prediction, given by the pairs <<p, k>> of
\* classes for which it proves that p dominates k within the bound.  The
\* sample lies in its zonotope, so no class is proved to dominate the class
\* predicted for the sample, and no two classes dominate each other.
ModelOutputs(nb_classes) ==
    UNION {{[concrete_pred |-> p, zono |-> z] :
               z \in {r \in SUBSET (Classes(nb_classes) \X Classes(nb_classes)) :
                         \A pair \in r : /\ pair[1] # pair[2]
                                         /\ pair[2] # p
                                         /\ <<pair[2], pair[1]>> \notin r}} :
           p \in Classes(nb_classes)}

\* self._classifier.certify_via_subtraction
CertifyViaSubtraction(zono, predicted_class, class_to_consider) ==
    <<predicted_class, class_to_consider>> \in zono

\* lines 290-301: all(certification_results)
AllCertified(zono, nb_classes, concrete_pred) ==
    \A k \in Classes(nb_classes) :
        k # concrete_pred => CertifyViaSubtraction(zono, concrete_pred, k)

OptimizerMissingNever(c) == FALSE

\* self._classifier._optimizer is None
OptimizerMissing(c) == c.optimizer = None

\* lines 202-238: defaults, model mode, optimizer check, schedule set-up.
\* self.batch_size is an int, so "elif self.batch_size is not None" is taken
\* whenever nb_epochs is None.
Fit ==
    /\ t_pc = "idle"
    /\ LET batch_size == IF args.batch_size = None THEN trainer.batch_size
                         ELSE Val(args.batch_size)
           epochs == IF args.nb_epochs # None THEN Val(args.nb_epochs)
                     ELSE trainer.batch_size
           entered == [fit EXCEPT !.batch_size = batch_size, !.epochs = epochs,
                                  !.training_before = classifier.training]
       IN  /\ classifier' = [classifier EXCEPT !.training = args.training_mode]
           /\ IF OptimizerMissing(classifier)
              THEN /\ t_pc' = "raised"
                   /\ t_err' = "ValueError"
                   /\ fit' = entered
              ELSE LET counted == [entered EXCEPT
                                      !.num_batch =
                                          CeilDiv(args.n, trainer.pgd_params.batch_size),
                                      !.ind = Arange(args.n),
                                      !.x_cert = Arange(args.n)]
                   IN  IF trainer.use_certification_schedule
                       THEN IF trainer.certification_schedule = None
                            THEN IF epochs = 0
                                 THEN /\ t_pc' = "raised"
                                      /\ t_err' = "ZeroDivisionError"
                                      /\ fit' = counted
                                 ELSE /\ t_pc' = "epoch"
                                      /\ t_err' = "none"
                                      /\ fit' = [counted EXCEPT
                                            !.certification_schedule_function =
                                                Some(DefaultLinearScheduler(
                                                    FDiv(trainer.bound, epochs), 0))]
                            ELSE /\ t_pc' = "epoch"
                                 /\ t_err' = "none"
                                 /\ fit' = counted
                       ELSE /\ t_pc' = "epoch"
                            /\ t_err' = "none"
                            /\ fit' = [counted EXCEPT !.bound = Some(trainer.bound)]
    /\ UNCHANGED <<trainer, args>>
    /\ UNCHANGED attackVars

\* lines 240-244: an epoch is entered, the certification schedule is stepped
\* and ind is shuffled
EpochStart ==
    /\ t_pc = "epoch"
    /\ fit.epoch < fit.epochs
    /\ \E shuffled \in Shuffles(fit.ind) :
       LET entered == [fit EXCEPT !.epoch = @ + 1, !.m = 0]
       IN  IF trainer.use_certification_schedule
           THEN IF fit.certification_schedule_function = None
                THEN /\ t_pc' = "raised"
                     /\ t_err' = "UnboundLocalError"
                     /\ fit' = entered
                ELSE LET stepped ==
                             SchedulerStep(Val(fit.certification_schedule_function))
                     IN  /\ t_pc' = "batch"
                         /\ t_err' = t_err
                         /\ fit' = [entered EXCEPT
                                       !.certification_schedule_function = Some(stepped),
                                       !.bound = Some(stepped.bound),
                                       !.ind = shuffled,
                                       !.batches = << >>]
           ELSE /\ t_pc' = "batch"
                /\ t_err' = t_err
                /\ fit' = [entered EXCEPT !.ind = shuffled, !.batches = << >>]
    /\ UNCHANGED <<trainer, classifier, args>>
    /\ UNCHANGED attackVars

\* the loop over range(epochs) is exhausted: fit returns
FitReturn ==
    /\ t_pc = "epoch"
    /\ fit.epoch >= fit.epochs
    /\ t_pc' = "done"
    /\ UNCHANGED <<t_err, trainer, classifier, args, fit>>
    /\ UNCHANGED attackVars

\* lines 248-255: a batch step starts: the certified loss and the count of
\* certified samples are reset, the gradients are zeroed and x_cert, y_cert
\* are shuffled together
BatchStart ==
    /\ t_pc = "batch"
    /\ fit.m < fit.num_batch
    /\ classifier' = ZeroGrad([classifier EXCEPT !.calls = << >>])
    /\ \E shuffled \in Shuffles(fit.x_cert) :
          fit' = [fit EXCEPT !.summed = 0, !.i = 0, !.x_cert = shuffled,
                             !.cert_samples = << >>, !.samples_certified = 0]
    /\ t_pc' = "sample"
    /\ UNCHANGED <<t_err, trainer, args>>
    /\ UNCHANGED attackVars

\* lines 353-354: the batches of the epoch are exhausted
EpochEnd ==
    /\ t_pc = "batch"
    /\ fit.m >= fit.num_batch
    /\ fit' = [fit EXCEPT !.lr_steps = IF args.scheduler # None THEN @ + 1 ELSE @]
    /\ t_pc' = "epoch"
    /\ UNCHANGED <<t_err, trainer, classifier, args>>
    /\ UNCHANGED attackVars

\* the condition of the break that ends the loop over the samples
BreakCondition(i, batch_size) == (i + 1) % batch_size = 0 /\ i > 0

\* lines 256-305: one iteration of the loop over the samples, for sample fit.i
\* of the shuffled x_cert: concrete prediction, conversion to a zonotope,
\* abstract forward pass, certified loss, certification
Sample ==
    /\ t_pc = "sample"
    /\ \E out \in ModelOutputs(classifier.nb_classes) :
       LET sample == CertSample(fit.x_cert, fit.i)
           label == args.y[sample + 1]
           predicted == [Forward(SetForwardMode(classifier, "concrete"),
                                 "concrete_pred")
                            EXCEPT !.passes.concrete = @ + 1]
           eps_bound == IF trainer.concrete_to_zonotope = None
                        THEN Some(Val(fit.bound)) ELSE fit.eps_bound
           converted == [fit EXCEPT
                            !.eps_bound = eps_bound,
                            !.conversions = IF trainer.concrete_to_zonotope = None
                                            THEN @ ELSE @ + 1]
           abstract == SetForwardMode(predicted, "abstract")
           counted == AllCertified(out.zono, classifier.nb_classes, out.concrete_pred)
           certified == [converted EXCEPT
                            !.summed = @ + 1,
                            !.cert_samples = Append(@, sample),
                            !.samples_certified = IF counted THEN @ + 1 ELSE @,
                            !.last = Some([label |-> label,
                                           concrete_pred |-> out.concrete_pred,
                                           zono |-> out.zono,
                                           counted |-> counted])]
       IN  IF eps_bound = None
           THEN /\ t_pc' = "raised"
                /\ t_err' = "UnboundLocalError"
                /\ fit' = converted
                /\ classifier' = abstract
           ELSE /\ classifier' = [Forward(abstract, "zonotope")
                                     EXCEPT !.passes.abstract = @ + 1]
                /\ t_err' = t_err
                /\ IF \/ BreakCondition(fit.i, fit.batch_size)
                      \/ fit.i + 1 >= args.n
                   THEN /\ t_pc' = "pgd"
                        /\ fit' = certified
                   ELSE /\ t_pc' = "sample"
                        /\ fit' = [certified EXCEPT !.i = @ + 1]
    /\ UNCHANGED <<trainer, args>>
    /\ UNCHANGED attackVars

\* lines 307-351: the certified loss is divided, the PGD batch is taken, the
\* adversarial examples are generated and passed forward, the combined loss
\* is passed backward and the optimizer takes its step
PgdStep ==
    /\ t_pc = "pgd"
    /\ LET i_batch == PgdBatch(fit.ind, fit.m, trainer.pgd_params.batch_size)
           generated == Forward(SetForwardMode(classifier, "concrete"), "pgd_generate")
           passed == Forward(generated, "pgd_loss")
       IN  /\ classifier' = [OptimizerStep(Backward(passed))
                                EXCEPT !.passes.pgd = @ + 1]
           /\ fit' = [fit EXCEPT !.divided_by = fit.batch_size, !.m = @ + 1,
                                 !.batches = Append(@, i_batch)]
    /\ t_pc' = "batch"
    /\ UNCHANGED <<t_err, trainer, args>>
    /\ UNCHANGED attackVars

(***************************************************************************)
(* The trainers and fit calls explored.                                    *)
(***************************************************************************)
Optional(S) == {None} \cup {Some(v) : v \in S}

CustomSchedule == [calls |-> 0]

Trainers(nb_epochs, bounds, batch_sizes, use_schedule, schedules, zonotopes, pgd_sizes) ==
    [nb_epochs : nb_epochs, bound : bounds, batch_size : batch_sizes,
     use_certification_schedule : use_schedule,
     certification_schedule : schedules,
     concrete_to_zonotope : zonotopes,
     pgd_params : [batch_size : pgd_sizes]]

\* fit calls on n samples (x) with their labels (y, as index labels)
FitArgs(ns, nb_classes, batch_sizes, nb_epochs, training_modes, schedulers) ==
    UNION {[n : {n}, y : [1..n -> Classes(nb_classes)], batch_size : batch_sizes,
            nb_epochs : nb_epochs, training_mode : training_modes,
            scheduler : schedulers] : n \in ns}

WrappedClassifiers(optimizers, training, nb_classes) ==
    [optimizer : optimizers, training : training, nb_classes : {nb_classes},
     forward_mode : {"concrete"}, passes : {NoPasses}, modes : {NoModes},
     calls : {<< >>}]

\* every schedule, bound and number of epochs, on one batch per epoch
ScheduleScenarios ==
    Trainers({1, MaxEpochs}, BoundValues, 1..MaxBatchSize, BOOLEAN,
             {None, Some(CustomSchedule)}, {None}, {MaxSamples})
    \X WrappedClassifiers({Some("optimizer")}, {FALSE}, 1)
    \X FitArgs({1}, 1, {None}, Optional(0..MaxEpochs), {TRUE}, {None})

\* every batch size given to fit, every PGD batch size and training-set size,
\* over two epochs, with and without a custom concrete_to_zonotope
BatchScenarios ==
    Trainers({MaxEpochs}, {Pow2(FloatPrecision - 1) * BoundUnit}, {MaxBatchSize},
             {TRUE}, {None}, {None, Some("concrete_to_zonotope")}, 1..MaxBatchSize)
    \X WrappedClassifiers({Some("optimizer")}, {FALSE}, 1)
    \X FitArgs(1..MaxSamples, 1, {Some(b) : b \in 1..MaxBatchSize}, {Some(2)},
               {TRUE}, {None})

\* with and without an optimizer, in every model mode
ModeScenarios ==
    Trainers({MaxEpochs}, {Pow2(FloatPrecision - 1) * BoundUnit}, {1}, BOOLEAN,
             {None}, {None}, {MaxSamples})
    \X WrappedClassifiers(Optional({"optimizer"}), BOOLEAN, 1)
    \X FitArgs({1}, 1, {None}, {None, Some(1)}, BOOLEAN, Optional({"scheduler"}))

\* a classifier with two classes: every labelling of the samples, every
\* prediction and certification of the model
CertificationScenarios ==
    Trainers({1}, {Pow2(FloatPrecision - 1) * BoundUnit}, {1}, {FALSE},
             {None}, {None}, {1})
    \X WrappedClassifiers({Some("optimizer")}, {FALSE}, 2)
    \X FitArgs({1, 2}, 2, {None}, {Some(1)}, {TRUE}, {None})

Scenarios ==
    ScheduleScenarios \cup BatchScenarios \cup ModeScenarios
        \cup CertificationScenarios

NoTrainer ==
    [nb_epochs |-> 0, bound |-> 0, batch_size |-> 0,
     use_certification_schedule |-> FALSE, certification_schedule |-> None,
     concrete_to_zonotope |-> None, pgd_params |-> [batch_size |-> 0]]

NoClassifier ==
    [optimizer |-> None, training |-> FALSE, nb_classes |-> 0,
     forward_mode |-> "concrete", passes |-> NoPasses, modes |-> NoModes,
     calls |-> << >>]

NoArgs ==
    [n |-> 0, y |-> << >>, batch_size |-> None, nb_epochs |-> None,
     training_mode |-> FALSE, scheduler |-> None]

(***************************************************************************)
(* Specifications                                                          *)
(***************************************************************************)
InitPatch ==
    /\ a_pc = "new"
    /\ a_err = "none"
    /\ a_args = None
    /\ attack = NoAttack
    /\ gen = NoGenerate
    /\ a_step = NoTrainStep
    /\ t_pc = "none"
    /\ t_err = "none"
    /\ trainer = NoTrainer
    /\ classifier = NoClassifier
    /\ args = NoArgs
    /\ fit = NoFit

\* SpecPatch: construction over every classifier and patch shape, followed by
\* any sequence of _train_step and reset_patch calls
NextPatch ==
    \/ \E c \in Classifiers, lr \in LearningRates, ps \in Shapes :
          Construct(c, lr, MaxIter, MaxBatch, ps)
    \/ \E t \in {None, Some("y")} : \E g \in Gradients(attack.patch) : TrainStep(t, g)
    \/ \E v \in InitialPatchValues : ResetPatch(v)

SpecPatch == InitPatch /\ [][NextPatch]_vars

\* SpecGenerate: construction over every max_iter and batch_size, followed by
\* generate calls on training sets of every size
GenerateClassifier ==
    [input_shape |-> <<2, 2, 3>>, clip_values |-> <<0, 2>>,
     postprocessing_defences |-> None]

NextGenerate ==
    \/ \E mi \in 0..MaxIter, bs \in 1..MaxBatch, c \in {1, 3} :
          Construct(GenerateClassifier, 1, mi, bs, <<1, 1, c>>)
    \/ \E n \in 1..MaxN, shuffle \in BOOLEAN : Generate(n, shuffle)
    \/ \E g \in Gradients(attack.patch) : GenerateStep(g)
    \/ GenerateReturn

SpecGenerate == InitPatch /\ [][NextGenerate]_vars

\* the loop of generate runs in one thread and always takes its next step
GenerateLoop ==
    \/ \E g \in Gradients(attack.patch) : GenerateStep(g)
    \/ GenerateReturn

SpecGenerateFair == SpecGenerate /\ WF_vars(GenerateLoop)

\* Spec: a constructed trainer and one call of fit
Init ==
    /\ a_pc = "none"
    /\ a_err = "none"
    /\ a_args = None
    /\ attack = NoAttack
    /\ gen = NoGenerate
    /\ a_step = NoTrainStep
    /\ t_pc = "idle"
    /\ t_err = "none"
    /\ fit = NoFit
    /\ \E sc \in Scenarios :
          /\ trainer = sc[1]
          /\ classifier = sc[2]
          /\ args = sc[3]

Next ==
    \/ Fit
    \/ EpochStart
    \/ FitReturn
    \/ BatchStart
    \/ EpochEnd
    \/ Sample
    \/ PgdStep

Spec == Init /\ [][Next]_vars

(***************************************************************************)
(* Properties of AdversarialPatchTensorFlowV2                              *)
(***************************************************************************)
InClipValues(a) ==
    \A i \in DOMAIN a.patch :
        a.clip_values[1] <= a.patch[i] /\ a.patch[i] <= a.clip_values[2]

\* C1: whenever an attack instance exists (after construction, after every
\* _train_step and after every reset_patch), every element of the patch lies
\* within [clip_values[0], clip_values[1]] of the classifier.
C1_PatchWithinClipValues == a_pc = "ready" => InClipValues(attack)

\* C7: an attack instance is never created for a classifier whose
\* postprocessing_defences is a non-empty list: the construction fails with
\* an assertion error.
C7_PostprocessingDefencesRejected ==
    (a_args # None /\ Val(a_args).estimator.postprocessing_defences
                         \notin {None, Some(<< >>)})
        => (a_pc = "raised" /\ a_err = "AssertionError")

\* C8 as claimed: the construction fails with an assertion error whenever the
\* channel count of patch_shape differs from the channel count of the
\* classifier's input shape.
C8_ChannelMismatchRejected ==
    (a_args # None /\ Val(a_args).patch_shape[3] # Val(a_args).estimator.input_shape[3])
        => (a_pc = "raised" /\ a_err = "AssertionError")

\* C8 as amended: the construction fails with an assertion error whenever the
\* channel count of patch_shape or the channel count of the classifier's input
\* shape is not 1 or 3.
C8_ChannelCountRejected ==
    (a_args # None /\ ( \/ Val(a_args).patch_shape[3] \notin {1, 3}
                        \/ Val(a_args).estimator.input_shape[3] \notin {1, 3}))
        => (a_pc = "raised" /\ a_err = "AssertionError")

\* a construction rejected for the channel count of the patch alone
C8_Witness ==
    /\ a_pc = "raised"
    /\ a_err = "AssertionError"
    /\ a_args # None
    /\ Val(a_args).patch_shape[3] \notin {1, 3}
    /\ Val(a_args).estimator.input_shape[3] \in {1, 3}
    /\ Val(a_args).patch_shape[1] = Val(a_args).patch_shape[2]

\* C10: generate performs exactly max_iter patch optimization steps and then
\* returns: while the loop runs no more than max_iter steps have been taken
\* and the batches left in the repeated dataset are at least the steps left
\* to take, and when generate has returned exactly max_iter steps were taken.
C10_GenerateTakesMaxIterSteps ==
    /\ [](a_pc = "generate" =>
             /\ gen.i_iter <= attack.max_iter
             /\ gen.ds >= attack.max_iter - gen.i_iter)
    /\ [](a_pc = "returned" => gen.i_iter = attack.max_iter)
    /\ (a_pc = "generate") ~> (a_pc = "returned")

\* generate has returned by break, with batches left over, after max_iter > 0
\* steps on a training set larger than one batch
C10_Witness ==
    /\ a_pc = "returned"
    /\ gen.exit = "break"
    /\ gen.i_iter = attack.max_iter
    /\ attack.max_iter = MaxIter
    /\ gen.n > attack.batch_size

\* C16: in _train_step, when target is None the target is replaced by the
\* classifier's prediction on the images, the targeted flag becomes false and
\* the update applied to the patch uses the negated gradient of the loss;
\* when a target is given the flag becomes true and the gradient is applied
\* unchanged.  In both cases one gradient update (of the SGD optimizer, with
\* the constraint of the patch variable) is applied to the patch, and nothing
\* else of the attack changes.
C16_TrainStepTargetedOrUntargeted ==
    [][\A t \in {None, Some("y")} : \A g \in Gradients(attack.patch) :
          TrainStep(t, g) =>
              LET update == [i \in DOMAIN g |-> IF t = None THEN -g[i] ELSE g[i]]
              IN  /\ a_step'.target =
                         IF t = None THEN Some("estimator.predict(images)") ELSE t
                  /\ attack'.targeted = (t # None)
                  /\ attack'.patch =
                         [i \in DOMAIN attack.patch |->
                             ClipByValue(attack.patch[i]
                                             - attack.learning_rate * update[i],
                                         attack.clip_values[1],
                                         attack.clip_values[2])]
                  /\ [attack' EXCEPT !.patch = attack.patch,
                                     !.targeted = attack.targeted] = attack
                  /\ UNCHANGED <<a_pc, a_err, a_args, gen>>]_vars

\* an untargeted step has been taken and has left an element of the patch
\* strictly inside the clip values, away from its initial value
C16_Witness ==
    /\ a_pc = "ready"
    /\ a_step.target = Some("estimator.predict(images)")
    /\ ~attack.targeted
    /\ \E i \in DOMAIN attack.patch :
          /\ attack.clip_values[1] < attack.patch[i]
          /\ attack.patch[i] < attack.clip_values[2]
          /\ 2 * attack.patch[i] # attack.clip_values[1] + attack.clip_values[2]

(***************************************************************************)
(* Properties of AdversarialTrainerCertified.fit                           *)
(***************************************************************************)
UsesDefaultSchedule ==
    /\ trainer.use_certification_schedule
    /\ trainer.certification_schedule = None

UsesCustomSchedule ==
    /\ trainer.use_certification_schedule
    /\ trainer.certification_schedule # None

InEpoch == t_pc \in {"batch", "sample", "pgd"}

\* C2: when the loop over the samples of a batch step has ended, the number
\* of samples whose certified loss was summed is min(batch_size, N), and the
\* sum is then divided by batch_size.
C2_SummedSamplesIsBatchSize ==
    /\ t_pc = "pgd" => fit.summed = Min(fit.batch_size, args.n)
    /\ (t_pc = "batch" /\ fit.m > 0) => fit.divided_by = fit.batch_size

\* C3 as claimed: under the default linear scheduler the bound used during
\* the e-th epoch is e * bound / epochs (as a float), and the bound used in
\* the last epoch is exactly the configured bound.
C3_BoundExactlyLinear ==
    (UsesDefaultSchedule /\ InEpoch) =>
        /\ Val(fit.bound) = FRound(fit.epoch * trainer.bound, fit.epochs)
        /\ fit.epoch = fit.epochs => Val(fit.bound) = trainer.bound

\* C3 as amended: under the default linear scheduler the bound used during
\* the e-th epoch is the sum of e floating-point additions of the float
\* bound / epochs to 0: it equals e * bound / epochs up to the accumulated
\* rounding error, a relative error of at most e*u / (1 - e*u) where
\* u = 2^-FloatPrecision is the unit roundoff.
C3_BoundLinearUpToRounding ==
    (UsesDefaultSchedule /\ InEpoch) =>
        /\ fit.bound # None
        /\ Abs(Val(fit.bound) * fit.epochs - fit.epoch * trainer.bound)
               * (Pow2(FloatPrecision) - fit.epoch)
           <= fit.epoch * fit.epoch * Abs(trainer.bound)

\* the last epoch of a fit under the default scheduler, with a bound that
\* rounding has moved away from the configured bound
C3_Witness ==
    /\ UsesDefaultSchedule
    /\ InEpoch
    /\ fit.epoch = fit.epochs
    /\ fit.epochs = MaxEpochs
    /\ Val(fit.bound) # trainer.bound

\* C4: with a custom certification_schedule, fit calls its step() once per
\* epoch, before any batch of the epoch, and the call succeeds: the number of
\* calls is the number of epochs entered and no error is raised by it.
C4_CustomScheduleSteppedEachEpoch ==
    (UsesCustomSchedule /\ t_pc # "idle") =>
        /\ Val(trainer.certification_schedule).calls = fit.epoch
        /\ t_err # "UnboundLocalError"

\* C5: with a custom concrete_to_zonotope, every sample converted by it is
\* passed through the abstract forward pass without error.
C5_CustomZonotopeForwardPass ==
    trainer.concrete_to_zonotope # None =>
        /\ classifier.passes.abstract = fit.conversions
        /\ t_err # "UnboundLocalError"

\* C6: a fit call that completes has run nb_epochs epochs when nb_epochs is
\* given, and the nb_epochs of the trainer's constructor when it is None.
C6_EpochsRun ==
    t_pc = "done" =>
        fit.epoch = IF args.nb_epochs = None THEN trainer.nb_epochs
                    ELSE Val(args.nb_epochs)

NothingExecuted ==
    /\ fit.epoch = 0
    /\ fit.certification_schedule_function = None
    /\ fit.lr_steps = 0
    /\ classifier.passes = NoPasses

\* C9 as claimed: without an optimizer fit raises a configuration error
\* before training starts: no epoch is entered, no schedule is stepped, no
\* pass or optimizer step is executed, and the mode of the model is the one
\* it had before the call.
C9_NoOptimizerNothingChanged ==
    (classifier.optimizer = None /\ t_pc # "idle") =>
        /\ t_pc = "raised"
        /\ t_err = "ValueError"
        /\ NothingExecuted
        /\ classifier.training = fit.training_before

\* C9 as amended: without an optimizer fit raises a configuration error
\* before training starts: no epoch is entered, no schedule is stepped, no
\* pass or optimizer step is executed; the mode of the model has been set to
\* training_mode before the error is raised.
C9_NoOptimizerRaisesAfterModeSet ==
    (classifier.optimizer = None /\ t_pc # "idle") =>
        /\ t_pc = "raised"
        /\ t_err = "ValueError"
        /\ NothingExecuted
        /\ classifier.training = args.training_mode

\* fit has raised for the missing optimizer and has changed the model's mode
C9_Witness ==
    /\ classifier.optimizer = None
    /\ t_pc = "raised"
    /\ t_err = "ValueError"
    /\ classifier.training # fit.training_before

\* C11 as claimed: within one fit call using the default linear scheduler,
\* for every configured bound, the bound used in an epoch is greater than or
\* equal to the bound used in the epoch before it.
C11_BoundNeverDecreases ==
    [][(UsesDefaultSchedule /\ fit.bound # None /\ fit'.bound # None)
          => Val(fit'.bound) >= Val(fit.bound)]_vars

\* C11 as amended: within one fit call using the default linear scheduler,
\* for every configured bound that is not negative, the bound used in an
\* epoch is greater than or equal to the bound used in the epoch before it.
C11_NonNegativeBoundNeverDecreases ==
    [][(UsesDefaultSchedule /\ trainer.bound >= 0
            /\ fit.bound # None /\ fit'.bound # None)
          => Val(fit'.bound) >= Val(fit.bound)]_vars

\* the last of several epochs under the default scheduler, with a positive
\* configured bound: the bound has been stepped from epoch to epoch
C11_Witness ==
    /\ UsesDefaultSchedule
    /\ InEpoch
    /\ trainer.bound > 0
    /\ fit.epochs = MaxEpochs
    /\ fit.epoch = fit.epochs
    /\ Val(fit.bound) > 0

\* C12: when a learning-rate scheduler is passed to fit, its step() is run at
\* the start of every epoch: during the batches of the e-th epoch it has been
\* run e times, and when fit has returned it has been run once per epoch.
C12_LrSchedulerSteppedAtEpochStart ==
    args.scheduler # None =>
        /\ InEpoch => fit.lr_steps = fit.epoch
        /\ t_pc = "done" => fit.lr_steps = fit.epoch

\* C13: during fit the forward-mode flag matches the pass being executed:
\* every concrete prediction, every PGD generation and every PGD loss forward
\* pass was executed in mode "concrete", and every zonotope forward pass in
\* mode "abstract".
C13_ForwardModeMatchesPass ==
    /\ classifier.modes.concrete_pred \subseteq {"concrete"}
    /\ classifier.modes.pgd_generate \subseteq {"concrete"}
    /\ classifier.modes.pgd_loss \subseteq {"concrete"}
    /\ classifier.modes.zonotope \subseteq {"abstract"}

\* a concrete prediction has followed a PGD step which followed a zonotope
\* pass: passes of every kind were executed, in two batch steps
C13_Witness ==
    /\ t_pc = "batch"
    /\ classifier.passes.optimizer_step >= 2
    /\ \A kind \in DOMAIN classifier.modes : classifier.modes[kind] # {}

\* C14 as claimed: in each batch step the samples over which the certified
\* loss was computed are the samples of the PGD batch of that step.
C14_CertifiedSamplesArePgdBatch ==
    (t_pc = "batch" /\ fit.m > 0) =>
        Range(fit.cert_samples) = Range(fit.batches[fit.m])

\* C14 as amended: in each batch step the samples over which the certified
\* loss was computed are the first samples of x_cert, a permutation of the
\* training set shuffled anew in that step, while the PGD batch is selected
\* from the training set by the indices
\* ind[(m * B) .. ((m + 1) * B - 1)], B = pgd_params["batch_size"]; the two
\* are selected independently of each other.
C14_CertifiedSamplesFromOwnShuffle ==
    (t_pc = "batch" /\ fit.m > 0) =>
        LET B == trainer.pgd_params.batch_size
            i_batch == fit.batches[fit.m]
        IN  /\ Len(fit.x_cert) = args.n
            /\ Range(fit.x_cert) = 0..(args.n - 1)
            /\ Len(fit.cert_samples) = fit.summed
            /\ \A k \in 1..Len(fit.cert_samples) :
                   fit.cert_samples[k] = fit.x_cert[k]
            /\ Len(i_batch) = Min(B, args.n - (fit.m - 1) * B)
            /\ \A k \in 1..Len(i_batch) :
                   i_batch[k] = fit.ind[(fit.m - 1) * B + k]

\* a batch step whose certified loss was computed over several samples none
\* of which is in its PGD batch
C14_Witness ==
    /\ t_pc = "batch"
    /\ fit.m > 0
    /\ Len(fit.cert_samples) >= 2
    /\ Range(fit.cert_samples) \cap Range(fit.batches[fit.m]) = {}

\* C15: a sample is counted in samples_certified if and only if the class of
\* its label passes the certification check against every other class, and a
\* sample whose concrete prediction differs from its label is never counted.
C15_CertifiedIffLabelDominates ==
    fit.last # None =>
        LET l == Val(fit.last)
        IN  /\ l.counted <=> AllCertified(l.zono, classifier.nb_classes, l.label)
            /\ l.concrete_pred # l.label => ~l.counted

Count(s, e) == Cardinality({k \in DOMAIN s : s[k] = e})

\* C17: every batch step performs, in this order, exactly one optimizer
\* zero_grad, the accumulation of the certified loss over the samples, the
\* PGD generation and the PGD loss, one backward pass of the combined loss and
\* exactly one optimizer step; no optimizer step occurs without a backward
\* pass before it in the same batch step; a fit call that completes has
\* performed epochs * ceil(N / pgd_params["batch_size"]) optimizer steps.
C17_BatchStepOrder ==
    LET calls == classifier.calls
        n == Len(calls)
    IN  /\ \A k \in 1..n :
               calls[k] = "optimizer_step" =>
                   \E j \in 1..(k - 1) : calls[j] = "backward"
        /\ Count(calls, "optimizer_step") <= 1
        /\ classifier.passes.optimizer_step = classifier.passes.backward
        /\ (t_pc = "batch" /\ fit.m > 0) =>
               /\ n = 1 + 2 * fit.summed + 4
               /\ fit.summed >= 1
               /\ calls[1] = "zero_grad"
               /\ \A k \in 1..fit.summed :
                      /\ calls[2 * k] = "concrete_pred"
                      /\ calls[2 * k + 1] = "zonotope"
               /\ calls[n - 3] = "pgd_generate"
               /\ calls[n - 2] = "pgd_loss"
               /\ calls[n - 1] = "backward"
               /\ calls[n] = "optimizer_step"
               /\ classifier.passes.zero_grad = classifier.passes.optimizer_step
        /\ t_pc = "done" =>
               classifier.passes.optimizer_step
                   = fit.epochs * CeilDiv(args.n, trainer.pgd_params.batch_size)

\* a fit call of several epochs has completed, each epoch of several batch
\* steps, the last of them on a smaller batch
C17_Witness ==
    /\ t_pc = "done"
    /\ fit.epochs >= 2
    /\ fit.num_batch >= 2
    /\ args.n % trainer.pgd_params.batch_size # 0
    /\ classifier.passes.optimizer_step = fit.epochs * fit.num_batch

\* the number of places of the batches bs at which sample s occurs
Occurrences(bs, s) ==
    Cardinality(UNION {{<<j, k>> : k \in {h \in DOMAIN bs[j] : bs[j][h] = s}} :
                       j \in DOMAIN bs})

\* C18: in every epoch ind is a permutation of 0..N-1 and the PGD batches
\* partition it: no batch is empty, no batch has more than B samples
\* (B = pgd_params["batch_size"]), no sample is in two batches and, when the
\* batches of the epoch are done, every sample has been in exactly one of
\* ceil(N / B) batches.
C18_PgdBatchesPartitionInd ==
    LET B == trainer.pgd_params.batch_size
        Samples == 0..(args.n - 1)
    IN  /\ t_pc \in {"epoch", "batch", "sample", "pgd", "done"} =>
               /\ Len(fit.ind) = args.n
               /\ Range(fit.ind) = Samples
        /\ InEpoch =>
               /\ Len(fit.batches) = fit.m
               /\ \A j \in DOMAIN fit.batches :
                      /\ Len(fit.batches[j]) >= 1
                      /\ Len(fit.batches[j]) <= B
                      /\ Range(fit.batches[j]) \subseteq Samples
               /\ \A s \in Samples : Occurrences(fit.batches, s) <= 1
        /\ ( \/ t_pc = "batch" /\ fit.m >= fit.num_batch
             \/ t_pc \in {"epoch", "done"} /\ fit.epoch > 0 ) =>
               /\ \A s \in Samples : Occurrences(fit.batches, s) = 1
               /\ Len(fit.batches) * B >= args.n
               /\ (Len(fit.batches) - 1) * B < args.n

\* the batches of an epoch are done: several batches, the last one smaller,
\* over an ind that the shuffle has reordered
C18_Witness ==
    /\ t_pc = "batch"
    /\ fit.m = fit.num_batch
    /\ fit.num_batch >= 2
    /\ args.n % trainer.pgd_params.batch_size # 0
    /\ fit.ind # Arange(args.n)
    /\ \A s \in 0..(args.n - 1) : Occurrences(fit.batches, s) = 1

====
